---- MODULE Spec2Model ----
(***************************************************************************)
(* IntensityDurationFrequencyAnalyse (heavy_rain_analysis/main_class.py).  *)
(*                                                                         *)
(* Numbers are fixed point:                                                *)
(*   u, w              integer depth units                                 *)
(*   return periods    hundredths of a year (200 = 2 a)                    *)
(*   logarithms        thousandths (693 = ln 2)                            *)
(*   rainfall depths   thousandths of a depth unit (u * 1000 + w * ln)     *)
(*   measurement span  whole days                                          *)
(***************************************************************************)
EXTENDS Integers, Sequences, FiniteSets, TLC

\* inst    the analysis objects, by instance number
\* files   the file system: path |-> lines of the csv file
\* result  the last call: operation, instance, arguments, how it ended, what
\*         it returned, and whether calculate_u_w / get_parameter ran in it
\* calls   per instance, how often calculate_u_w and get_parameter have run
\* supply  per instance, the series its caller hands to set_series
VARIABLES inst, files, result, calls, supply

vars == <<inst, files, result, calls, supply>>

(* ----------------------------- values ---------------------------------- *)

\* Python None for object-valued attributes and for string-valued ones
None == [tag |-> "None"]
NoneStr == "None"

PARTIAL == "partial"
ANNUAL == "annual"
DWA == "DWA"

\* numpy nan as a depth / return period value
NaN == 0 - 2000000000

(* ----------------------------- bounds ---------------------------------- *)

\* no instance runs get_parameter or calculate_u_w more often than this
MaxCalls == 3

SeriesKinds == {PARTIAL, ANNUAL}
Worksheets == {DWA}
OutputPaths == {NoneStr, "out"}
Filenames == {NoneStr, "station"}
Names == {"gauge"}

\* rainfall series: kind of index, timezone, sampling interval in minutes,
\* days between first and last timestamp, and the magnitude of its extremes
SeriesInputs ==
    { [id |-> "s20y5", index |-> "DatetimeIndex", tz |-> FALSE,
       base_min |-> 5, days |-> 7305, u0 |-> 50, w0 |-> 20],
      [id |-> "s3y15", index |-> "DatetimeIndex", tz |-> TRUE,
       base_min |-> 15, days |-> 1096, u0 |-> 80, w0 |-> 30],
      [id |-> "s9y720", index |-> "DatetimeIndex", tz |-> FALSE,
       base_min |-> 720, days |-> 3640, u0 |-> 95, w0 |-> 35],
      [id |-> "sRange", index |-> "RangeIndex", tz |-> FALSE,
       base_min |-> 5, days |-> 0, u0 |-> 40, w0 |-> 10] }

\* return periods offered to the queries, and durations
ReturnPeriods == {50, 200}
Durations == {60, 1440}
MaxDurations == {60}

(* --------------------------- duration grid ----------------------------- *)

default_duration_steps == <<5, 10, 15, 20, 30, 45, 60, 90, 180, 270, 360, 450, 600, 720>>
duration_steps_extended == <<720, 1080, 1440, 2880, 4320, 5760, 7200, 8640>>

\* the grid the constructor builds
ConfiguredGrid(extended_durations) ==
    IF extended_durations
    THEN default_duration_steps \o duration_steps_extended
    ELSE default_duration_steps

\* self.duration_steps[self.duration_steps >= base_min]
FilterGrid(steps, base_min) ==
    LET keep(d) == d >= base_min IN SelectSeq(steps, keep)

(* ---------------------------- constructor ------------------------------ *)

\* __init__: out_path is '' without output_path and <output_path>/data with it
OutPath(output_path) ==
    IF output_path = NoneStr THEN "" ELSE output_path \o "/data"

Construct(series_kind, worksheet, output_path, extended_durations, output_filename, auto_save) ==
    [ series_kind |-> series_kind,
      worksheet |-> worksheet,
      data_base |-> output_filename,
      series |-> None,
      _parameter |-> None,
      _interim_results |-> None,
      _auto_save |-> auto_save,
      _output_path |-> OutPath(output_path),
      _output_filename |-> output_filename,
      duration_steps |-> ConfiguredGrid(extended_durations),
      extended_durations |-> extended_durations ]

Configs ==
    { Construct(k, ws, p, e, f, a) :
        k \in SeriesKinds, ws \in Worksheets, p \in OutputPaths,
        e \in BOOLEAN, f \in Filenames, a \in BOOLEAN }

(* ------------------------- measurement period -------------------------- *)

\* measurement_period is days / 365.25; round(period, 1) in tenths of a year
\* is the nearest integer to 40 * days / 1461 (no ties for whole days)
RoundedTenthYears(days) == (80 * days + 1461) \div 2922

\* period < 10 years, unrounded: days / 365.25 < 10
BelowTenYears(days) == 4 * days < 14610

\* remove_timezone
remove_timezone(series) == [series EXCEPT !.tz = FALSE]

(* ------------------------------ set_series ----------------------------- *)

\* set_series with the short-period warning raised as an error
set_series_effect_fatal(o, series, name) ==
    LET o1 == [o EXCEPT !.series = series, !.data_base = name] IN
    IF series.index # "DatetimeIndex"
    THEN [obj |-> o1, outcome |-> "TypeError", warned |-> FALSE]
    ELSE LET o2 == IF series.tz
                   THEN [o1 EXCEPT !.series = remove_timezone(series)]
                   ELSE o1
             o3 == [o2 EXCEPT !.duration_steps =
                        FilterGrid(o2.duration_steps, o2.series.base_min)]
             short == RoundedTenthYears(o3.series.days) < 100
         IN [obj |-> o3, outcome |-> IF short THEN "UserWarning" ELSE "ok",
             warned |-> short]

\* the object after set_series(series, name), and how the call ended
set_series_effect(o, series, name) ==
    LET o1 == [o EXCEPT !.series = series, !.data_base = name] IN
    IF series.index # "DatetimeIndex"
    THEN [obj |-> o1, outcome |-> "TypeError", warned |-> FALSE]
    ELSE LET o2 == IF series.tz
                   THEN [o1 EXCEPT !.series = remove_timezone(series)]
                   ELSE o1
             o3 == [o2 EXCEPT !.duration_steps =
                        FilterGrid(o2.duration_steps, o2.series.base_min)]
         IN [obj |-> o3, outcome |-> "ok",
             warned |-> RoundedTenthYears(o3.series.days) < 100]

set_series(i, series, name) ==
    LET e == set_series_effect(inst[i], series, name) IN
    /\ inst' = [inst EXCEPT ![i] = e.obj]
    /\ result' = [op |-> "set_series", inst |-> i, outcome |-> e.outcome,
                  arg |-> [series |-> series.id, name |-> name],
                  value |-> [warned |-> e.warned], ran |-> 0, fit |-> 0]
    /\ UNCHANGED <<files, calls, supply>>

(* ------------------- extraction and fit (helper layer) ----------------- *)

\* calculate_u_w: a table with one (u, w) row per duration step, in the
\* order of the steps
calculate_u_w(series, duration_steps, measurement_period, series_kind) ==
    [rows |->
        [k \in 1..Len(duration_steps) |->
            LET d == duration_steps[k] IN
            [duration |-> d,
             u |-> series.u0 + (d \div 30)
                   - (IF series_kind = ANNUAL THEN 5 ELSE 0),
             w |-> series.w0 + (d \div 360) + (measurement_period \div 3650)]]]

\* the durations a worksheet's closed-form model is valid for
ValidRange(worksheet) == [lo |-> 5, hi |-> 720]

InRangeRows(table, worksheet) ==
    LET in(r) == r.duration >= ValidRange(worksheet).lo
                 /\ r.duration <= ValidRange(worksheet).hi
    IN SelectSeq(table.rows, in)

\* the fit needs at least as many distinct in-range durations as coefficients
FitFails(table, worksheet) ==
    LET rows == InRangeRows(table, worksheet) IN
    Cardinality({rows[k].duration : k \in 1..Len(rows)}) < 2

\* get_parameter: the line through the first and the last in-range row
get_parameter(table, worksheet) ==
    LET rows == InRangeRows(table, worksheet) IN
    [first |-> rows[1], last |-> rows[Len(rows)],
     lo |-> ValidRange(worksheet).lo, hi |-> ValidRange(worksheet).hi]

\* get_u_w: the fitted function inside the valid range, the interim table
\* (first row at or above the duration, else the last row) outside of it
get_u_w(duration, parameter, interim_results) ==
    IF duration >= parameter.lo /\ duration <= parameter.hi
    THEN LET a == parameter.first
             b == parameter.last
             span == b.duration - a.duration
         IN [u |-> a.u + ((b.u - a.u) * (duration - a.duration)) \div span,
             w |-> a.w + ((b.w - a.w) * (duration - a.duration)) \div span]
    ELSE LET rows == interim_results.rows
             above == {k \in 1..Len(rows) : rows[k].duration >= duration}
             k == IF above = {} THEN Len(rows)
                  ELSE CHOOSE j \in above : \A m \in above : j <= m
         IN [u |-> rows[k].u, w |-> rows[k].w]

(* --------------------------- log and exp ------------------------------- *)

\* np.log of a return period (hundredths of a year), in thousandths
LnTable ==
    (50 :> (0 - 693)) @@ (100 :> 0) @@ (144 :> 365) @@ (200 :> 693) @@
    (300 :> 1099) @@ (500 :> 1609) @@ (949 :> 2250) @@ (1000 :> 2303) @@
    (1500 :> 2708) @@ (5000 :> 3912) @@ (9950 :> 4600) @@ (10000 :> 4605)

ln(t) == LnTable[t]

\* np.exp of x thousandths: the largest tabulated return period whose
\* logarithm does not exceed x
exp(x) ==
    LET below == {t \in DOMAIN LnTable : LnTable[t] <= x} IN
    IF x = NaN \/ below = {} THEN NaN
    ELSE CHOOSE t \in below : \A s \in below : s <= t

\* -ln(ln(T / (T - 1))) in thousandths; not a number for T <= 1 a
AnnualTable == (200 :> 367) @@ (1000 :> 2250) @@ (10000 :> 4600)

\* depth_of_rainfall(u, w, series_kind, return_period) of the helper layer
depth_formula(u, w, series_kind, return_period) ==
    IF series_kind = ANNUAL
    THEN IF return_period \in DOMAIN AnnualTable
         THEN u * 1000 + w * AnnualTable[return_period]
         ELSE NaN
    ELSE u * 1000 + w * ln(return_period)

(* ------------------------------- files --------------------------------- *)

\* file_stamp: '_'.join([data_base, worksheet, series_kind])
file_stamp(o) ==
    IF o.data_base = NoneStr
    THEN [outcome |-> "TypeError", name |-> ""]
    ELSE [outcome |-> "ok",
          name |-> o.data_base \o "_" \o o.worksheet \o "_" \o o.series_kind]

\* output_filename: path.join(_output_path, _output_filename or file_stamp)
output_filename(o) ==
    IF o._output_filename = NoneStr
    THEN LET st == file_stamp(o) IN
         [outcome |-> st.outcome, name |-> <<o._output_path, st.name>>]
    ELSE [outcome |-> "ok", name |-> <<o._output_path, o._output_filename>>]

\* to_csv followed by read_csv(index_col=0): durations, u and w as written
to_csv(table) ==
    [k \in 1..Len(table.rows) |->
        <<table.rows[k].duration, table.rows[k].u, table.rows[k].w>>]

read_csv(lines) ==
    [rows |->
        [k \in 1..Len(lines) |->
            [duration |-> lines[k][1], u |-> lines[k][2], w |-> lines[k][3]]]]

(* --------------------------- cached properties ------------------------- *)

\* measurement_period of the series held (days); numeric only for a
\* DatetimeIndex
measurement_period(o) == o.series.days

\* property interim_results: outcome, object and files afterwards, and
\* whether calculate_u_w ran
interim_results(o, fs) ==
    IF o._interim_results # None
    THEN [outcome |-> "ok", obj |-> o, files |-> fs, ran |-> 0]
    ELSE LET fn == output_filename(o)
             inter_file == <<fn.name, "_interim_results.csv">>
         IN
         IF fn.outcome # "ok"
         THEN [outcome |-> fn.outcome, obj |-> o, files |-> fs, ran |-> 0]
         ELSE IF inter_file \in DOMAIN fs
         THEN [outcome |-> "ok",
               obj |-> [o EXCEPT !._interim_results = read_csv(fs[inter_file])],
               files |-> fs, ran |-> 0]
         ELSE IF o.series = None
         THEN [outcome |-> "ImportError", obj |-> o, files |-> fs, ran |-> 0]
         ELSE IF o.series.index # "DatetimeIndex"
         THEN [outcome |-> "TypeError", obj |-> o, files |-> fs, ran |-> 0]
         ELSE LET t == calculate_u_w(o.series, o.duration_steps,
                                     measurement_period(o), o.series_kind)
              IN [outcome |-> "ok",
                  obj |-> [o EXCEPT !._interim_results = t],
                  files |-> IF o._auto_save
                            THEN (inter_file :> to_csv(t)) @@ fs ELSE fs,
                  ran |-> 1]

\* property parameter without the test of the cache slot
parameter_uncached(o, fs) ==
    LET ir == interim_results(o, fs) IN
    IF ir.outcome # "ok"
    THEN [outcome |-> ir.outcome, obj |-> ir.obj, files |-> ir.files,
          ran |-> ir.ran, fit |-> 0]
    ELSE IF FitFails(ir.obj._interim_results, o.worksheet)
    THEN [outcome |-> "FitError", obj |-> ir.obj, files |-> ir.files,
          ran |-> ir.ran, fit |-> 1]
    ELSE [outcome |-> "ok",
          obj |-> [ir.obj EXCEPT !._parameter =
                      get_parameter(ir.obj._interim_results, o.worksheet)],
          files |-> ir.files, ran |-> ir.ran, fit |-> 1]

\* property parameter, on top of interim_results
parameter(o, fs) ==
    IF o._parameter # None
    THEN [outcome |-> "ok", obj |-> o, files |-> fs, ran |-> 0, fit |-> 0]
    ELSE LET ir == interim_results(o, fs) IN
         IF ir.outcome # "ok"
         THEN [outcome |-> ir.outcome, obj |-> ir.obj, files |-> ir.files,
               ran |-> ir.ran, fit |-> 0]
         ELSE IF FitFails(ir.obj._interim_results, o.worksheet)
         THEN [outcome |-> "FitError", obj |-> ir.obj, files |-> ir.files,
               ran |-> ir.ran, fit |-> 1]
         ELSE [outcome |-> "ok",
               obj |-> [ir.obj EXCEPT !._parameter =
                           get_parameter(ir.obj._interim_results, o.worksheet)],
               files |-> ir.files, ran |-> ir.ran, fit |-> 1]

(* ------------------------------- queries ------------------------------- *)

\* what a query that went through the cached properties leaves behind
Finish(i, acc, op, arg, value) ==
    /\ inst' = [inst EXCEPT ![i] = acc.obj]
    /\ files' = acc.files
    /\ calls' = [calls EXCEPT ![i].calculate_u_w = @ + acc.ran,
                              ![i].get_parameter = @ + acc.fit]
    /\ result' = [op |-> op, inst |-> i, outcome |-> acc.outcome,
                  arg |-> arg,
                  value |-> IF acc.outcome = "ok" THEN value ELSE None,
                  ran |-> acc.ran, fit |-> acc.fit]
    /\ UNCHANGED supply

CanCall(i) ==
    /\ calls[i].calculate_u_w < MaxCalls
    /\ calls[i].get_parameter < MaxCalls

\* u and w of the object for a duration, once parameter has succeeded
u_w_of(o, duration) == get_u_w(duration, o._parameter, o._interim_results)

\* (height_of_rainfall - u) / w followed by np.exp
return_period_of(height_of_rainfall, u, w) ==
    IF height_of_rainfall = NaN THEN NaN
    ELSE exp((height_of_rainfall - u * 1000) \div w)

\* r: height / duration * (1000 / 6)
r(height_of_rainfall, duration) ==
    IF height_of_rainfall = NaN THEN NaN
    ELSE (height_of_rainfall * 1000) \div (6 * duration)

\* interim_results.loc[:max_duration]
loc_up_to(table, max_duration) ==
    LET le(row) == row.duration <= max_duration IN
    [rows |-> SelectSeq(table.rows, le)]

\* u + w * np.log(return_time) for every row
points_of(table, return_time) ==
    [k \in 1..Len(table.rows) |->
        [duration |-> table.rows[k].duration,
         depth |-> table.rows[k].u * 1000 + table.rows[k].w * ln(return_time)]]

\* the default return periods of result_table
default_return_periods == {50, 100, 200, 300, 500, 1000, 1500, 5000, 10000}

get_interim_results(i) ==
    /\ CanCall(i)
    /\ LET acc == interim_results(inst[i], files) @@ [fit |-> 0] IN
       Finish(i, acc, "interim_results", None,
              [table |-> acc.obj._interim_results])

get_parameter_property(i) ==
    /\ CanCall(i)
    /\ LET acc == parameter(inst[i], files) IN
       Finish(i, acc, "parameter", None, [parameter |-> acc.obj._parameter])

query_get_u_w(i, duration) ==
    /\ CanCall(i)
    /\ LET acc == parameter(inst[i], files) IN
       Finish(i, acc, "get_u_w", [duration |-> duration],
              u_w_of(acc.obj, duration))

depth_of_rainfall(i, duration, return_period) ==
    /\ CanCall(i)
    /\ LET acc == parameter(inst[i], files)
           uw == u_w_of(acc.obj, duration)
       IN Finish(i, acc, "depth_of_rainfall",
                 [duration |-> duration, return_period |-> return_period],
                 [u |-> uw.u, w |-> uw.w,
                  depth |-> depth_formula(uw.u, uw.w, acc.obj.series_kind,
                                          return_period)])

\* the depth handed in is one depth_of_rainfall gives for the duration
get_return_period(i, duration, of_return_period) ==
    /\ CanCall(i)
    /\ LET acc == parameter(inst[i], files)
           uw == u_w_of(acc.obj, duration)
           h == depth_formula(uw.u, uw.w, acc.obj.series_kind, of_return_period)
       IN Finish(i, acc, "get_return_period",
                 [duration |-> duration,
                  height_of_rainfall |->
                      IF acc.outcome = "ok" THEN h ELSE 0],
                 [u |-> uw.u, w |-> uw.w,
                  return_period |-> return_period_of(h, uw.u, uw.w)])

rain_flow_rate(i, duration, return_period) ==
    /\ CanCall(i)
    /\ LET acc == parameter(inst[i], files)
           uw == u_w_of(acc.obj, duration)
       IN Finish(i, acc, "rain_flow_rate",
                 [duration |-> duration, return_period |-> return_period],
                 [rate |-> r(depth_formula(uw.u, uw.w, acc.obj.series_kind,
                                           return_period), duration)])

result_table(i) ==
    /\ CanCall(i)
    /\ LET acc == parameter(inst[i], files)
           steps == acc.obj.duration_steps
       IN Finish(i, acc, "result_table", None,
                 [table |->
                    [k \in 1..Len(steps) |->
                        [t \in default_return_periods |->
                            LET uw == u_w_of(acc.obj, steps[k]) IN
                            depth_formula(uw.u, uw.w, acc.obj.series_kind, t)]]])

measured_points(i, return_time, has_max, max_duration) ==
    /\ CanCall(i)
    /\ LET acc == interim_results(inst[i], files) @@ [fit |-> 0]
           all == acc.obj._interim_results
           rows == IF has_max THEN loc_up_to(all, max_duration) ELSE all
       IN Finish(i, acc, "measured_points",
                 [return_time |-> return_time, has_max |-> has_max,
                  max_duration |-> IF has_max THEN max_duration ELSE 0],
                 [rows |-> rows.rows, points |-> points_of(rows, return_time)])

(* ---------------------------- specification ---------------------------- *)

NoResult ==
    [op |-> "none", inst |-> 0, outcome |-> "ok", arg |-> None,
     value |-> None, ran |-> 0, fit |-> 0]

Next ==
    \E i \in DOMAIN inst :
        \/ \E s \in supply[i], n \in Names : set_series(i, s, n)
        \/ get_interim_results(i)
        \/ get_parameter_property(i)
        \/ \E d \in Durations : query_get_u_w(i, d)
        \/ \E d \in Durations, t \in ReturnPeriods : depth_of_rainfall(i, d, t)
        \/ \E d \in Durations, t \in ReturnPeriods : get_return_period(i, d, t)
        \/ \E d \in Durations, t \in ReturnPeriods : rain_flow_rate(i, d, t)
        \/ result_table(i)
        \/ \E t \in ReturnPeriods, m \in MaxDurations, hm \in BOOLEAN :
               measured_points(i, t, hm, m)

\* one analysis object, any constructor configuration, no file on disk
Init ==
    /\ inst \in [{1} -> Configs]
    /\ files = << >>
    /\ result = NoResult
    /\ calls = [i \in {1} |-> [calculate_u_w |-> 0, get_parameter |-> 0]]
    /\ supply = [i \in {1} |-> SeriesInputs]

Spec == Init /\ [][Next]_vars

\* two analysis objects built with the same output path, worksheet and
\* series kind and no output_filename; each has a series of its own
SharedConfigs ==
    { c \in Configs : c._output_path = OutPath("out")
                      /\ c._output_filename = NoneStr
                      /\ ~c.extended_durations }

InitShared ==
    /\ inst \in [{1, 2} -> SharedConfigs]
    /\ inst[1].series_kind = inst[2].series_kind
    /\ files = << >>
    /\ result = NoResult
    /\ calls = [i \in {1, 2} |-> [calculate_u_w |-> 0, get_parameter |-> 0]]
    /\ supply = [i \in {1, 2} |->
                    {s \in SeriesInputs :
                        s.id = (IF i = 1 THEN "s20y5" ELSE "s3y15")}]

SpecShared == InitShared /\ [][Next]_vars

(* ------------------------------ properties ----------------------------- *)

SeriesById(id) == CHOOSE s \in SeriesInputs : s.id = id

\* the queries that go through the fitted parameter set
ParameterOps ==
    {"parameter", "get_u_w", "depth_of_rainfall", "get_return_period",
     "rain_flow_rate", "result_table"}

DerivedOps == ParameterOps \cup {"interim_results", "measured_points"}

DurationsOf(table) == [k \in 1..Len(table.rows) |-> table.rows[k].duration]

\* the table is what the extraction gives for this series at the table's
\* own durations
TableFrom(table, series, series_kind) ==
    /\ series # None
    /\ series.index = "DatetimeIndex"
    /\ table = calculate_u_w(series, DurationsOf(table), series.days, series_kind)

StrictlyIncreasing(steps) ==
    \A j, k \in 1..Len(steps) : j < k => steps[j] < steps[k]

\* C1: round trip. A get_return_period call that is handed the depth
\* depth_of_rainfall gives for return period T at the same duration (same
\* u, w, and a depth that is a number) returns T, for both series kinds.
C1_RoundTrip ==
    (/\ result.op = "get_return_period" /\ result.outcome = "ok"
     /\ result.arg.height_of_rainfall # NaN) =>
        \A t \in ReturnPeriods :
            result.arg.height_of_rainfall =
                depth_formula(result.value.u, result.value.w,
                              inst[result.inst].series_kind, t)
            => result.value.return_period = t

\* C2 as stated: in one instance calculate_u_w runs at most once and
\* get_parameter runs at most once, whatever is queried.
C2_AtMostOnce ==
    \A i \in DOMAIN inst :
        calls[i].calculate_u_w <= 1 /\ calls[i].get_parameter <= 1

\* C2 as amended: once the interim table (the parameter set) is cached, no
\* later call replaces it or runs calculate_u_w (get_parameter) again; only a
\* run that raised, and so cached nothing, is repeated.
C2_MemoizedOnceCached ==
    [][\A i \in DOMAIN inst :
          /\ inst[i]._interim_results # None =>
                /\ inst'[i]._interim_results = inst[i]._interim_results
                /\ calls'[i].calculate_u_w = calls[i].calculate_u_w
          /\ inst[i]._parameter # None =>
                /\ inst'[i]._parameter = inst[i]._parameter
                /\ calls'[i].get_parameter = calls[i].get_parameter]_vars

\* a query answered from both caches after each helper has run once
C2_Witness ==
    /\ result.op = "depth_of_rainfall" /\ result.outcome = "ok"
    /\ result.ran = 0 /\ result.fit = 0
    /\ calls[result.inst].calculate_u_w = 1
    /\ calls[result.inst].get_parameter = 1

\* C3: while the series held was accepted by set_series, the duration grid
\* is exactly the configured grid without the steps below the sampling
\* interval of that series.
C3_GridOfCurrentSeries ==
    \A i \in DOMAIN inst :
        (inst[i].series # None /\ inst[i].series.index = "DatetimeIndex") =>
            inst[i].duration_steps =
                FilterGrid(ConfiguredGrid(inst[i].extended_durations),
                           inst[i].series.base_min)

\* C4: the table interim_results returns is extracted from the series the
\* instance holds at that time.
C4_TableOfCurrentSeries ==
    (result.op = "interim_results" /\ result.outcome = "ok") =>
        TableFrom(result.value.table, inst[result.inst].series,
                  inst[result.inst].series_kind)

\* C5: measured_points returns, for the rows up to and including
\* max_duration, the depth the kind-specific depth formula gives for the
\* row's u and w.
C5_MeasuredPointsUseDepthFormula ==
    (result.op = "measured_points" /\ result.outcome = "ok") =>
        LET o == inst[result.inst]
            all == o._interim_results.rows
            upto(row) == ~result.arg.has_max
                         \/ row.duration <= result.arg.max_duration
        IN /\ result.value.rows = SelectSeq(all, upto)
           /\ \A k \in 1..Len(result.value.rows) :
                 result.value.points[k].depth =
                     depth_formula(result.value.rows[k].u,
                                   result.value.rows[k].w,
                                   o.series_kind, result.arg.return_time)

\* C6: with no series set and no file on disk, a query for a derived table
\* ends in the 'No Series was defined!' ImportError and both caches stay
\* empty.
C6_NoSeriesError ==
    (/\ result.op \in DerivedOps
     /\ inst[result.inst].series = None
     /\ DOMAIN files = {}) =>
        /\ result.outcome = "ImportError"
        /\ inst[result.inst]._interim_results = None
        /\ inst[result.inst]._parameter = None

\* C7 as stated: set_series of a series with a DatetimeIndex spanning less
\* than 10 years warns, and still installs the series and filters the grid.
C7_WarnsBelowTenYears ==
    (/\ result.op = "set_series"
     /\ SeriesById(result.arg.series).index = "DatetimeIndex"
     /\ BelowTenYears(SeriesById(result.arg.series).days)) =>
        LET o == inst[result.inst]
            s == SeriesById(result.arg.series)
        IN /\ result.outcome = "ok"
           /\ result.value.warned
           /\ o.series = remove_timezone(s)
           /\ \A k \in 1..Len(o.duration_steps) : o.duration_steps[k] >= s.base_min

\* C7 as amended: the warning is due when the span rounded to one decimal is
\* below 10 years, that is below 9.95 years (400 * days < 995 * 1461).
C7_WarnsBelowTenYearsRounded ==
    (/\ result.op = "set_series"
     /\ SeriesById(result.arg.series).index = "DatetimeIndex"
     /\ 400 * SeriesById(result.arg.series).days < 995 * 1461) =>
        LET o == inst[result.inst]
            s == SeriesById(result.arg.series)
        IN /\ result.outcome = "ok"
           /\ result.value.warned
           /\ o.series = remove_timezone(s)
           /\ \A k \in 1..Len(o.duration_steps) : o.duration_steps[k] >= s.base_min

\* the three-year series has been set: warned, installed without its
\* timezone, grid filtered to its 15-minute interval
C7_Witness ==
    /\ result.op = "set_series" /\ result.outcome = "ok"
    /\ result.arg.series = "s3y15"
    /\ result.value.warned
    /\ inst[result.inst].series = remove_timezone(SeriesById("s3y15"))
    /\ inst[result.inst].duration_steps[1] = 15

\* C8: the table an instance returns is extracted from a series of its own,
\* whatever other instances have done.
C8_TableOfOwnSeries ==
    (result.op = "interim_results" /\ result.outcome = "ok") =>
        \E s \in supply[result.inst] :
            TableFrom(result.value.table, remove_timezone(s),
                      inst[result.inst].series_kind)

\* C9: a set_series call that ends in TypeError leaves series, data_base and
\* duration_steps of the instance as they were.
C9_RejectedLeavesInstance ==
    [][(result'.op = "set_series" /\ result'.outcome = "TypeError") =>
          LET i == result'.inst IN
          /\ inst'[i].series = inst[i].series
          /\ inst'[i].data_base = inst[i].data_base
          /\ inst'[i].duration_steps = inst[i].duration_steps]_vars

\* C10: the duration grid is strictly increasing in every state.
C10_GridStrictlyIncreasing ==
    \A i \in DOMAIN inst : StrictlyIncreasing(inst[i].duration_steps)

====
